---- MODULE Spec2Model ----
(***************************************************************************)
(* North-Node-Api: the /north-node request handler of src/index.js and of  *)
(* src/index1.js.                                                          *)
(*                                                                         *)
(* src/index.js holds five successive revisions of the same server, one    *)
(* after the other.  The model keeps them apart by the variable rev:       *)
(*   "rev1"   lines    1 ..  336  (geo-tz + luxon resolver)                *)
(*   "rev2"   lines  338 ..  641  (estimateTimezone, house fallback)       *)
(*   "rev3"   lines  643 .. 1046  (manual DST table by longitude band)     *)
(*   "hybrid" lines 1048 .. 1599  (luxon first, manual table as fallback)  *)
(*   "rev5"   lines 1601 .. 1950  (manual table + hard-coded chart)        *)
(* src/index1.js is an earlier server with no timezone handling; it is the *)
(* value "index1" of rev.                                                  *)
(*                                                                         *)
(* Requests.  pc .. res are the locals of the invocation of the handler    *)
(* the model is looking at; peer holds the locals of a second invocation   *)
(* in flight on the same server.  call is the frame of a weekday-of-month  *)
(* helper of the DST tables when one is run on its own.                    *)
(*                                                                         *)
(* Units.  Real numbers of the program are kept on integer grids:          *)
(*   ecliptic longitudes  : 1/120 degree  (Deg(d) = d degrees)             *)
(*   hours and offsets    : minutes       (Hrs(h) = h hours)               *)
(*   latitude / longitude : 1/1000 degree (Geo(d) = d degrees)             *)
(***************************************************************************)
EXTENDS Integers, Sequences, FiniteSets, TLC

VARIABLES rev, pc, req, lib, timezone, ut, nodeResult, houseResult, house, res,
          peer, call

vars ==
  <<rev, pc, req, lib, timezone, ut, nodeResult, houseResult, house, res, peer,
    call>>

Revisions == {"rev1", "rev2", "rev3", "hybrid", "rev5", "index1"}

----------------------------------------------------------------------------
(* Units *)

Deg(d) == d * 120
Hrs(h) == h * 60
Geo(d) == d * 1000

FullCircle == Deg(360)
DayMinutes == Hrs(24)

Abs(x) == IF x < 0 THEN -x ELSE x

----------------------------------------------------------------------------
(* House classification: the loop of the swe_calc_ut callback.             *)

NumHouses == 12

\* cusps[i] of the program (0-based) is cusps[i + 1] of the model.
CuspAt(cusps, i) == cusps[i + 1]

currentCusp(cusps, i) == CuspAt(cusps, i)

nextCusp(cusps, i) ==
  IF i = NumHouses - 1 THEN CuspAt(cusps, 0) ELSE CuspAt(cusps, i + 1)

\* A test that forgets the wrap case.
SpanContainsPlain(cusps, i, nodeLon) ==
  (nodeLon >= currentCusp(cusps, i)) /\ (nodeLon < nextCusp(cusps, i))

\* A test whose spans are closed at both ends: <= nextCusp instead of <.
SpanContainsInclusive(cusps, i, nodeLon) ==
  IF nextCusp(cusps, i) < currentCusp(cusps, i)
    THEN (nodeLon >= currentCusp(cusps, i)) \/ (nodeLon <= nextCusp(cusps, i))
    ELSE (nodeLon >= currentCusp(cusps, i)) /\ (nodeLon <= nextCusp(cusps, i))

\* The test of one iteration: the wrap case when nextCusp < currentCusp,
\* the normal case otherwise.
SpanContains(cusps, i, nodeLon) ==
  IF nextCusp(cusps, i) < currentCusp(cusps, i)
    THEN (nodeLon >= currentCusp(cusps, i)) \/ (nodeLon < nextCusp(cusps, i))
    ELSE (nodeLon >= currentCusp(cusps, i)) /\ (nodeLon < nextCusp(cusps, i))

\* A loop that keeps the last match instead of breaking at the first.
RECURSIVE HouseLoopLastMatch(_, _, _)
HouseLoopLastMatch(i, cusps, nodeLon) ==
  IF i >= NumHouses THEN 0
  ELSE LET later == HouseLoopLastMatch(i + 1, cusps, nodeLon)
       IN  IF later # 0 THEN later
           ELSE IF SpanContains(cusps, i, nodeLon) THEN i + 1 ELSE 0

\* A loop that numbers the houses 0-11: house = i instead of house = i + 1.
RECURSIVE HouseLoopZeroBased(_, _, _)
HouseLoopZeroBased(i, cusps, nodeLon) ==
  IF i >= NumHouses THEN 0
  ELSE IF SpanContains(cusps, i, nodeLon)
         THEN i
         ELSE HouseLoopZeroBased(i + 1, cusps, nodeLon)

\* for (let i = 0; i < 12; i++) { ... house = i + 1; break; ... }
\* started at index i with house = 0; the value of house after the loop.
RECURSIVE HouseLoop(_, _, _)
HouseLoop(i, cusps, nodeLon) ==
  IF i >= NumHouses THEN 0
  ELSE IF SpanContains(cusps, i, nodeLon)
         THEN i + 1
         ELSE HouseLoop(i + 1, cusps, nodeLon)

\* Only revision 2 has "if (house === 0) house = 1" after the loop.
HasHouseFallback(r) == r = "rev2"

\* src/index1.js: let house = 12;
\* for (let i = 1; i <= 12; i++) { ... house = i - 1; break; ... }
\* started at index i on the array after cusps.push(cusps[0] + 360); the
\* value of house after the loop.  The test compares with end, not with
\* adjustedEnd.
RECURSIVE HouseLoopIndex1(_, _, _)
HouseLoopIndex1(i, cusps, nodeLon) ==
  LET Extended(k) == CuspAt(cusps, k)
      Adjusted(start, end) ==
        IF start > end /\ nodeLon < start THEN nodeLon + FullCircle ELSE nodeLon
      Test(start, end) ==
        IF Adjusted(start, end) >= start /\ Adjusted(start, end) < end
          THEN i - 1
          ELSE HouseLoopIndex1(i + 1, cusps, nodeLon)
  IN  IF i > NumHouses THEN NumHouses
      ELSE Test(Extended(IF i = 1 THEN NumHouses ELSE i - 1), Extended(i))

HouseOf(r, cusps, nodeLon) ==
  LET h == HouseLoop(0, cusps, nodeLon)
  IN  IF r = "index1"
        THEN HouseLoopIndex1(1, Append(cusps, CuspAt(cusps, 0) + FullCircle),
                             nodeLon)
      ELSE IF HasHouseFallback(r) /\ h = 0 THEN 1 ELSE h

----------------------------------------------------------------------------
(* Calendar arithmetic: what JavaScript's Date does with (year, month,     *)
(* day) fields, as whole days since 1970-01-01 of the proleptic Gregorian  *)
(* calendar.                                                               *)

\* Day number of year y, month m, day d; m and d may lie outside 1..12 and
\* the month, as in new Date(y, m - 1, d), which normalises both.
DaysFromCivil(y, m, d) ==
  LET Days(era, yoe, doy) ==
        era * 146097 + (yoe * 365 + yoe \div 4 - yoe \div 100 + doy) - 719468
      FromMarch(yy, mp) ==
        Days(yy \div 400, yy % 400, (153 * mp + 2) \div 5 + d - 1)
      Normal(y1, m1) ==
        FromMarch(IF m1 <= 2 THEN y1 - 1 ELSE y1,
                  IF m1 > 2 THEN m1 - 3 ELSE m1 + 9)
  IN  Normal(y + (m - 1) \div 12, ((m - 1) % 12) + 1)

\* getFullYear(), getMonth() + 1 and getDate() of the Date at day number z.
CivilFromDays(z) ==
  LET Date(era, yoe, doy, mp, m) ==
        [year  |-> yoe + era * 400 + (IF m <= 2 THEN 1 ELSE 0),
         month |-> m,
         day   |-> doy - (153 * mp + 2) \div 5 + 1]
      FromMp(era, yoe, doy, mp) ==
        Date(era, yoe, doy, mp, IF mp < 10 THEN mp + 3 ELSE mp - 9)
      FromDoy(era, yoe, doy) == FromMp(era, yoe, doy, (5 * doy + 2) \div 153)
      FromYoe(era, doe, yoe) ==
        FromDoy(era, yoe, doe - (365 * yoe + yoe \div 4 - yoe \div 100))
      FromDoe(era, doe) ==
        FromYoe(era, doe,
                (doe - doe \div 1460 + doe \div 36524 - doe \div 146096) \div 365)
      FromEra(zz, era) == FromDoe(era, zz - era * 146097)
      FromEpoch(zz) == FromEra(zz, zz \div 146097)
  IN  FromEpoch(z + 719468)

\* Date.prototype.getDay(): 0 = Sunday ... 6 = Saturday.
GetDay(z) == (z + 4) % 7

----------------------------------------------------------------------------
(* Local time to UT: the handler between processTimezone and swe_julday.   *)

\* while (utHour < 0) { utHour += 24; dayAdjustment -= 1; }
RECURSIVE WhileNegative(_, _)
WhileNegative(utHour, dayAdjustment) ==
  IF utHour < 0
    THEN WhileNegative(utHour + DayMinutes, dayAdjustment - 1)
    ELSE [utHour |-> utHour, dayAdjustment |-> dayAdjustment]

\* while (utHour >= 24) { utHour -= 24; dayAdjustment += 1; }
RECURSIVE WhileTooLarge(_, _)
WhileTooLarge(utHour, dayAdjustment) ==
  IF utHour >= DayMinutes
    THEN WhileTooLarge(utHour - DayMinutes, dayAdjustment + 1)
    ELSE [utHour |-> utHour, dayAdjustment |-> dayAdjustment]

\* A normalisation that forgets the second loop.
NormalizeOnlyUp(utHour) == WhileNegative(utHour, 0)

\* let utHour = localHour - timezone.offset; then the two loops, started
\* with dayAdjustment = 0.
NormalizeHour(utHour) ==
  LET Down(up) == WhileTooLarge(up.utHour, up.dayAdjustment)
  IN  Down(WhileNegative(utHour, 0))

\* new Date(localYear, localMonth - 1, localDay), setDate(getDate() +
\* dayAdjustment), and the three getters.
AdjustDate(y, m, d, dayAdjustment) ==
  CivilFromDays(DaysFromCivil(y, m, d) + dayAdjustment)

\* Revisions 1 and the hybrid's manual branch: counted day shift, date
\* moved with it.
ManualUT(y, m, d, localHour, offset) ==
  LET Fields(n, date) ==
        [year |-> date.year, month |-> date.month, day |-> date.day,
         hour |-> n.utHour, dayAdjustment |-> n.dayAdjustment,
         counted |-> TRUE, via |-> "manual", nan |-> FALSE]
      Shifted(n) == Fields(n, AdjustDate(y, m, d, n.dayAdjustment))
  IN  Shifted(NormalizeHour(localHour - offset))

\* Revisions 2, 3 and 5: the same loops without a counter, and swe_julday
\* is given localYear, localMonth, localDay.
UncountedUT(y, m, d, localHour, offset) ==
  [year |-> y, month |-> m, day |-> d,
   hour |-> NormalizeHour(localHour - offset).utHour, dayAdjustment |-> 0,
   counted |-> FALSE, via |-> "manual", nan |-> FALSE]

\* The hybrid with a valid luxonObject: toUTC() of the local date-time whose
\* zone offset is luxonOffset (minutes east of Greenwich), read back through
\* .year, .month, .day and .hour + .minute / 60 + .second / 3600.
LuxonUT(y, m, d, localHour, luxonOffset) ==
  LET Fields(total, date) ==
        [year |-> date.year, month |-> date.month, day |-> date.day,
         hour |-> total % DayMinutes, dayAdjustment |-> 0,
         counted |-> FALSE, via |-> "luxon", nan |-> FALSE]
      Instant(total) == Fields(total, CivilFromDays(total \div DayMinutes))
  IN  Instant(DaysFromCivil(y, m, d) * DayMinutes + localHour - luxonOffset)

----------------------------------------------------------------------------
(* The tz query parameter.  A string is a sequence of one-character        *)
(* strings; the empty sequence stands for an absent (or empty, hence       *)
(* falsy) parameter.                                                       *)

UpperCase == {"A", "B", "C", "D", "E", "F", "G", "H", "I", "J", "K", "L", "M",
              "N", "O", "P", "Q", "R", "S", "T", "U", "V", "W", "X", "Y", "Z"}

Digits == {"0", "1", "2", "3", "4", "5", "6", "7", "8", "9"}

Signs == {"+", "-"}

DigitValue(c) ==
  CASE c = "0" -> 0 [] c = "1" -> 1 [] c = "2" -> 2 [] c = "3" -> 3
    [] c = "4" -> 4 [] c = "5" -> 5 [] c = "6" -> 6 [] c = "7" -> 7
    [] c = "8" -> 8 [] c = "9" -> 9

\* Length of the longest run of characters of class starting at position p.
RECURSIVE RunLength(_, _, _)
RunLength(s, p, class) ==
  IF p <= Len(s) /\ s[p] \in class THEN 1 + RunLength(s, p + 1, class) ELSE 0

\* parseInt of the n digits starting at position p.
RECURSIVE ParseInt(_, _, _)
ParseInt(s, p, n) ==
  IF n = 0 THEN 0
  ELSE 10 * ParseInt(s, p, n - 1) + DigitValue(s[p + n - 1])

\* The n characters starting at position p, as one string.
RECURSIVE Text(_, _, _)
Text(s, p, n) == IF n = 0 THEN "" ELSE s[p] \o Text(s, p + 1, n - 1)

NoMatch ==
  [matched |-> FALSE, code |-> "", sign |-> "", hours |-> 0,
   hasMinutes |-> FALSE, minutes |-> 0]

\* An attempt of /([A-Z]+)?([+-])(\d+)(?::(\d+))?/ with the match starting
\* at position p.  The greedy letter group takes the whole run of capitals
\* at p, since the next character must be a sign; the groups are
\* code = [1], sign = [2], hours = [3], minutes = [4].
ComplexAt(s, p) ==
  LET Groups(sg, h, mm) ==
        IF sg <= Len(s) /\ s[sg] \in Signs /\ h >= 1
          THEN [matched |-> TRUE, code |-> Text(s, p, sg - p), sign |-> s[sg],
                hours |-> ParseInt(s, sg + 1, h),
                hasMinutes |-> mm >= 1,
                minutes |-> ParseInt(s, sg + h + 2, mm)]
          ELSE NoMatch
      MinuteDigits(colon) ==
        IF colon <= Len(s) /\ s[colon] = ":"
          THEN RunLength(s, colon + 1, Digits) ELSE 0
      FromHours(sg, h) == Groups(sg, h, MinuteDigits(sg + 1 + h))
      FromSign(sg) == FromHours(sg, RunLength(s, sg + 1, Digits))
  IN  FromSign(p + RunLength(s, p, UpperCase))

\* The same pattern anchored at both ends, /^...$/.
ComplexAnchored(s) ==
  LET Whole(m, k, h) ==
        IF m.matched /\
           k + 1 + h + (IF m.hasMinutes
                          THEN 1 + RunLength(s, k + h + 3, Digits) ELSE 0) = Len(s)
          THEN m ELSE NoMatch
      FromCode(m, k) == Whole(m, k, RunLength(s, k + 2, Digits))
  IN  FromCode(ComplexAt(s, 1), RunLength(s, 1, UpperCase))

\* tzParam.match(/([A-Z]+)?([+-])(\d+)(?::(\d+))?/): the pattern is not
\* anchored, so the leftmost position where an attempt succeeds decides.
ComplexMatch(s) ==
  LET Leftmost(starts) ==
        IF starts = {} THEN NoMatch
        ELSE ComplexAt(s, CHOOSE p \in starts : \A q \in starts : p <= q)
  IN  Leftmost({p \in 1..Len(s) : ComplexAt(s, p).matched})

\* tzParam.match(/^([+-])?(\d+)$/): anchored at both ends.
SimpleMatch(s) ==
  LET Groups(sg, h) ==
        IF h >= 1 /\ sg + h = Len(s)
          THEN [matched |-> TRUE, code |-> "",
                sign |-> IF sg = 1 THEN s[1] ELSE "",
                hours |-> ParseInt(s, sg + 1, h),
                hasMinutes |-> FALSE, minutes |-> 0]
          ELSE NoMatch
      FromSign(sg) == Groups(sg, RunLength(s, sg + 1, Digits))
  IN  FromSign(IF Len(s) >= 1 /\ s[1] \in Signs THEN 1 ELSE 0)

\* Revision 5: requestedTimezone.match(/([A-Z]+)([+-])(\d+):(\d+)/), code
\* and minutes both required, not anchored.
StrictAt(s, p) ==
  LET Require(m) ==
        IF m.matched /\ m.code # "" /\ m.hasMinutes THEN m ELSE NoMatch
  IN  Require(ComplexAt(s, p))

StrictMatch(s) ==
  LET Leftmost(starts) ==
        IF starts = {} THEN NoMatch
        ELSE StrictAt(s, CHOOSE p \in starts : \A q \in starts : p <= q)
  IN  Leftmost({p \in 1..Len(s) : StrictAt(s, p).matched})

\* sign * (hours + minutes / 60), in minutes.
ComplexOffset(m) ==
  (IF m.sign = "+" THEN 1 ELSE -1) * (Hrs(m.hours) + m.minutes)

\* sign * hours of the simple form, in minutes.
SimpleOffset(m) ==
  (IF m.sign = "-" THEN -1 ELSE 1) * Hrs(m.hours)

----------------------------------------------------------------------------
(* Weekday-of-month helpers of the manual DST tables.                      *)

\* Move backwards from day d of (year, month) until getDay() is the target.
RECURSIVE BackToWeekday(_, _, _, _)
BackToWeekday(year, month, d, targetDayOfWeek) ==
  LET At(z) ==
        IF GetDay(z) # targetDayOfWeek
          THEN BackToWeekday(year, month, d - 1, targetDayOfWeek)
          ELSE CivilFromDays(z).day
  IN  At(DaysFromCivil(year, month, d))

\* lastDay = new Date(year, month, 0).getDate(), then the backward search.
getLastDayOfMonth(year, month, targetDayOfWeek) ==
  LET lastDay == CivilFromDays(DaysFromCivil(year, month + 1, 0)).day
  IN  BackToWeekday(year, month, lastDay, targetDayOfWeek)

\* The n-th occurrence counted from zero: one week late.
getNthDayOfMonthWeekLate(year, month, dayOfWeek, n) ==
  LET firstDayOfWeek  == GetDay(DaysFromCivil(year, month, 1))
      firstOccurrence == 1 + ((dayOfWeek - firstDayOfWeek + 7) % 7)
  IN  firstOccurrence + n * 7

getNthDayOfMonth(year, month, dayOfWeek, n) ==
  LET firstDayOfWeek  == GetDay(DaysFromCivil(year, month, 1))
      firstOccurrence == 1 + ((dayOfWeek - firstDayOfWeek + 7) % 7)
  IN  firstOccurrence + (n - 1) * 7

\* The frame of one call of a weekday helper: its arguments, the local
\* `date` as a day number, the iterations of the while loop so far, and
\* the value returned.
Call(f, year, month, dayOfWeek, n, date, steps, result) ==
  [fn |-> f, year |-> year, month |-> month, dayOfWeek |-> dayOfWeek,
   n |-> n, date |-> date, steps |-> steps, result |-> result]

NoCall == Call("none", 0, 0, 0, 0, 0, 0, 0)

\* getNthDayOfMonth called on its own.
NthDay ==
  /\ pc = "called"
  /\ call.fn = "getNthDayOfMonth"
  /\ call' = [call EXCEPT !.result =
                getNthDayOfMonth(call.year, call.month, call.dayOfWeek, call.n)]
  /\ pc' = "returned"
  /\ UNCHANGED <<rev, req, lib, timezone, ut, nodeResult, houseResult, house,
                 res, peer>>

\* A search that starts from the last day of the month before: the month
\* index of new Date(year, month, 0) taken one too small.
LastDayStartPreviousMonth ==
  /\ pc = "called"
  /\ call.fn = "getLastDayOfMonth"
  /\ \E lastDay \in {CivilFromDays(DaysFromCivil(call.year, call.month, 0)).day} :
       call' = [call EXCEPT !.date =
                  DaysFromCivil(call.year, call.month, lastDay)]
  /\ pc' = "search"
  /\ UNCHANGED <<rev, req, lib, timezone, ut, nodeResult, houseResult, house,
                 res, peer>>

\* lastDay = new Date(year, month, 0).getDate();
\* date = new Date(year, month - 1, lastDay)
LastDayStart ==
  /\ pc = "called"
  /\ call.fn = "getLastDayOfMonth"
  /\ \E lastDay \in
        {CivilFromDays(DaysFromCivil(call.year, call.month + 1, 0)).day} :
       call' = [call EXCEPT !.date =
                  DaysFromCivil(call.year, call.month, lastDay)]
  /\ pc' = "search"
  /\ UNCHANGED <<rev, req, lib, timezone, ut, nodeResult, houseResult, house,
                 res, peer>>

\* One iteration of the while loop: date.setDate(date.getDate() - 1).
StepBack ==
  /\ pc = "search"
  /\ GetDay(call.date) # call.dayOfWeek
  /\ \E d \in {CivilFromDays(call.date)} :
       call' = [call EXCEPT !.date  = DaysFromCivil(d.year, d.month, d.day - 1),
                            !.steps = @ + 1]
  /\ UNCHANGED <<rev, pc, req, lib, timezone, ut, nodeResult, houseResult,
                 house, res, peer>>

\* The loop condition fails: return date.getDate().
LastDayReturn ==
  /\ pc = "search"
  /\ GetDay(call.date) = call.dayOfWeek
  /\ call' = [call EXCEPT !.result = CivilFromDays(call.date).day]
  /\ pc' = "returned"
  /\ UNCHANGED <<rev, req, lib, timezone, ut, nodeResult, houseResult, house,
                 res, peer>>

\* A window whose two transition days both belong to the old regime: DST
\* from the day after the start day up to and including the end day.
InDstWindowOldRegime(month, day, sm, startDay, em, endDay) ==
  \/ (month > sm /\ month < em)
  \/ (month = sm /\ day > startDay)
  \/ (month = em /\ day <= endDay)

\* (month > sm && month < em) || (month === sm && day >= startDay) ||
\* (month === em && day < endDay)
InDstWindow(month, day, sm, startDay, em, endDay) ==
  \/ (month > sm /\ month < em)
  \/ (month = sm /\ day >= startDay)
  \/ (month = em /\ day < endDay)

\* Last Sunday of April to last Sunday of October.
UsRule1966(year, month, day) ==
  InDstWindow(month, day, 4, getLastDayOfMonth(year, 4, 0),
              10, getLastDayOfMonth(year, 10, 0))

\* First Sunday of April to last Sunday of October.
UsRule1987(year, month, day) ==
  InDstWindow(month, day, 4, getNthDayOfMonth(year, 4, 0, 1),
              10, getLastDayOfMonth(year, 10, 0))

\* Second Sunday of March to first Sunday of November.
UsRule2007(year, month, day) ==
  InDstWindow(month, day, 3, getNthDayOfMonth(year, 3, 0, 2),
              11, getNthDayOfMonth(year, 11, 0, 1))

\* Last Sunday of March to last Sunday of September.
EuRule1980(year, month, day) ==
  InDstWindow(month, day, 3, getLastDayOfMonth(year, 3, 0),
              9, getLastDayOfMonth(year, 9, 0))

\* Last Sunday of March to last Sunday of October.
EuRule1997(year, month, day) ==
  InDstWindow(month, day, 3, getLastDayOfMonth(year, 3, 0),
              10, getLastDayOfMonth(year, 10, 0))

\* The Europe branch shared by revision 3 and the hybrid.
EuropeDst(year, month, day) ==
  IF year >= 1980
    THEN IF year <= 1996 THEN EuRule1980(year, month, day)
                         ELSE EuRule1997(year, month, day)
    ELSE FALSE

\* The four-era United States branch (revision 3: New York only; hybrid:
\* the four continental zones).
UsDstRev3(year, month, day) ==
  IF year >= 1966 /\ year <= 1986 THEN UsRule1966(year, month, day)
  ELSE IF year >= 1987 /\ year <= 2006 THEN UsRule1987(year, month, day)
  ELSE IF year >= 2007 THEN UsRule2007(year, month, day)
  ELSE FALSE

UsDstHybrid(year, month, day) ==
  IF year < 1966 THEN FALSE
  ELSE IF year >= 1966 /\ year <= 1986 THEN UsRule1966(year, month, day)
  ELSE IF year >= 1987 /\ year <= 2006 THEN UsRule1987(year, month, day)
  ELSE IF year >= 2007 THEN UsRule2007(year, month, day)
  ELSE FALSE

----------------------------------------------------------------------------
(* Zone tables.                                                            *)

\* timezonesByLongitude of revisions 2, 3 and 5: 24 bands of 15 degrees.
timezonesByLongitude ==
  << [min |-> -180, max |-> -165, id |-> "Pacific/Midway",      stdOffset |-> -660],
     [min |-> -165, max |-> -150, id |-> "Pacific/Honolulu",    stdOffset |-> -600],
     [min |-> -150, max |-> -135, id |-> "America/Anchorage",   stdOffset |-> -540],
     [min |-> -135, max |-> -120, id |-> "America/Los_Angeles", stdOffset |-> -480],
     [min |-> -120, max |-> -105, id |-> "America/Denver",      stdOffset |-> -420],
     [min |-> -105, max |->  -90, id |-> "America/Chicago",     stdOffset |-> -360],
     [min |->  -90, max |->  -75, id |-> "America/New_York",    stdOffset |-> -300],
     [min |->  -75, max |->  -60, id |-> "America/Halifax",     stdOffset |-> -240],
     [min |->  -60, max |->  -45, id |-> "America/St_Johns",    stdOffset |-> -210],
     [min |->  -45, max |->  -30, id |-> "America/Godthab",     stdOffset |-> -180],
     [min |->  -30, max |->  -15, id |-> "Atlantic/Azores",     stdOffset |->  -60],
     [min |->  -15, max |->    0, id |-> "Europe/London",       stdOffset |->    0],
     [min |->    0, max |->   15, id |-> "Europe/Paris",        stdOffset |->   60],
     [min |->   15, max |->   30, id |-> "Europe/Helsinki",     stdOffset |->  120],
     [min |->   30, max |->   45, id |-> "Europe/Moscow",       stdOffset |->  180],
     [min |->   45, max |->   60, id |-> "Asia/Dubai",          stdOffset |->  240],
     [min |->   60, max |->   75, id |-> "Asia/Karachi",        stdOffset |->  300],
     [min |->   75, max |->   90, id |-> "Asia/Dhaka",          stdOffset |->  360],
     [min |->   90, max |->  105, id |-> "Asia/Bangkok",        stdOffset |->  420],
     [min |->  105, max |->  120, id |-> "Asia/Shanghai",       stdOffset |->  480],
     [min |->  120, max |->  135, id |-> "Asia/Tokyo",          stdOffset |->  540],
     [min |->  135, max |->  150, id |-> "Australia/Sydney",    stdOffset |->  600],
     [min |->  150, max |->  165, id |-> "Pacific/Guadalcanal", stdOffset |->  660],
     [min |->  165, max |->  180, id |-> "Pacific/Auckland",    stdOffset |->  720] >>

\* timezonesByLongitude.find(tz => longitude >= tz.min && longitude < tz.max)
\* || { id: "UTC", stdOffset: 0 }
FindByLongitude(longitude) ==
  LET Entry(e) == [id |-> e.id, stdOffset |-> e.stdOffset]
      First(table, hits) ==
        IF hits = {} THEN [id |-> "UTC", stdOffset |-> 0]
        ELSE Entry(table[CHOOSE k \in hits : \A j \in hits : k <= j])
      Find(table) ==
        First(table, {k \in 1..Len(table) :
                        longitude >= Geo(table[k].min) /\
                        longitude <  Geo(table[k].max)})
  IN  Find(timezonesByLongitude)

\* id.startsWith("America/") and id.startsWith("Europe/") over every
\* identifier the tables hold.
AmericaIds == {"America/Anchorage", "America/Los_Angeles", "America/Denver",
               "America/Chicago", "America/New_York", "America/Halifax",
               "America/St_Johns", "America/Godthab"}

EuropeIds == {"Europe/London", "Europe/Paris", "Europe/Helsinki",
              "Europe/Moscow", "Europe/Berlin"}

\* getLikelyTimezoneId(longitude, latitude) of the hybrid.
\* The state-specific block: "" when it returns nothing and control falls
\* through to the international mapping.
UsZoneId(longitude, latitude) ==
  IF latitude >= Geo(24) /\ latitude <= Geo(50) /\
     longitude >= Geo(-125) /\ longitude <= Geo(-66)
    THEN IF longitude >= Geo(-83) /\ longitude <= Geo(-66) THEN "America/New_York"
         ELSE IF longitude >= Geo(-93) /\ longitude < Geo(-83) THEN "America/Chicago"
         ELSE IF longitude >= Geo(-112) /\ longitude < Geo(-93) THEN "America/Denver"
         ELSE IF longitude >= Geo(-125) /\ longitude < Geo(-112)
                THEN "America/Los_Angeles"
         ELSE ""
    ELSE ""

InternationalZoneId(longitude) ==
  IF longitude >= Geo(-14) /\ longitude <= Geo(0) THEN "Europe/London"
  ELSE IF longitude > Geo(0) /\ longitude <= Geo(30) THEN "Europe/Paris"
  ELSE IF longitude > Geo(30) /\ longitude <= Geo(60) THEN "Europe/Moscow"
  ELSE IF longitude > Geo(60) /\ longitude <= Geo(90) THEN "Asia/Kolkata"
  ELSE IF longitude > Geo(90) /\ longitude <= Geo(135) THEN "Asia/Shanghai"
  ELSE IF longitude > Geo(135) /\ longitude <= Geo(150) THEN "Asia/Tokyo"
  ELSE IF longitude > Geo(150) /\ longitude <= Geo(180) THEN "Pacific/Auckland"
  ELSE IF longitude > Geo(-60) /\ longitude <= Geo(-14) THEN "Atlantic/Azores"
  ELSE IF longitude > Geo(-150) /\ longitude <= Geo(-125) THEN "America/Anchorage"
  ELSE "Etc/UTC"

getLikelyTimezoneId(longitude, latitude) ==
  LET Pick(us) == IF us # "" THEN us ELSE InternationalZoneId(longitude)
  IN  Pick(UsZoneId(longitude, latitude))

\* standardOffsets[tzid] || 0 of the hybrid, in minutes.
getStandardOffset(tzid) ==
  CASE tzid = "America/New_York"    -> -300
    [] tzid = "America/Chicago"     -> -360
    [] tzid = "America/Denver"      -> -420
    [] tzid = "America/Los_Angeles" -> -480
    [] tzid = "America/Anchorage"   -> -540
    [] tzid = "America/Halifax"     -> -240
    [] tzid = "Europe/London"       -> 0
    [] tzid = "Europe/Paris"        -> 60
    [] tzid = "Europe/Berlin"       -> 60
    [] tzid = "Europe/Moscow"       -> 180
    [] tzid = "Asia/Dubai"          -> 240
    [] tzid = "Asia/Kolkata"        -> 330
    [] tzid = "Asia/Shanghai"       -> 480
    [] tzid = "Asia/Tokyo"          -> 540
    [] tzid = "Australia/Sydney"    -> 600
    [] tzid = "Pacific/Auckland"    -> 720
    [] tzid = "Etc/UTC"             -> 0
    [] OTHER                        -> 0

----------------------------------------------------------------------------
(* Timezone resolution.                                                    *)
(*                                                                         *)
(* A resolution is the object processTimezone returns, with two fields the *)
(* model adds to observe the call: source (which return statement made it) *)
(* and lookup (whether the coordinate lookup was evaluated).  offset is in *)
(* minutes; nan marks the NaN that revision 1 computes from an invalid     *)
(* DateTime; luxonObject tells whether a valid DateTime is attached, and   *)
(* luxonOffset is then its zone offset (minutes east of Greenwich).        *)

Resolution(id, offset, isDST, source, lookup) ==
  [id |-> id, offset |-> offset, isDST |-> isDST, source |-> source,
   lookup |-> lookup, nan |-> FALSE, luxonObject |-> FALSE, luxonOffset |-> 0]

NoResolution == Resolution("", 0, FALSE, "none", FALSE)

\* What the external libraries answer for one call: geo-tz's first zone for
\* the coordinates (revision 1) and luxon's DateTime.fromObject for the
\* civil fields in that zone: valid with an offset and a DST flag, invalid,
\* or an exception.
LibAnswer(tzid, status, offset, isDST) ==
  [tzid |-> tzid, status |-> status, offset |-> offset, isDST |-> isDST]

NoLib == LibAnswer("", "unused", 0, FALSE)

\* The first branch: "EST+5:00"-like strings.  Revisions 1 and the hybrid
\* return -offset; revision 3 returns offset.
ExplicitComplex(m, negate) ==
  Resolution(IF m.code = "" THEN "UTC" ELSE m.code,
             IF negate THEN -ComplexOffset(m) ELSE ComplexOffset(m),
             FALSE, "explicit_tz_param", FALSE)

\* The second branch: "5" or "-5".
ExplicitSimple(m) ==
  Resolution("UTC", SimpleOffset(m), FALSE, "numeric_offset", FALSE)

\* Revision 1 below the explicit branches: geo-tz and luxon.
GeoTzLuxon(l) ==
  [Resolution(l.tzid, -l.offset, l.isDST, "luxon_success", TRUE)
     EXCEPT !.nan = (l.status # "valid"),
            !.offset = IF l.status = "valid" THEN -l.offset ELSE 0,
            !.isDST = IF l.status = "valid" THEN l.isDST ELSE FALSE]

\* Revision 2: estimateTimezone(longitude, latitude, year, month).
estimateTimezone(longitude, latitude, year, month) ==
  LET DstOffset(id) ==
        IF id \in AmericaIds
          THEN IF year >= 1966 /\ year <= 1986
                 THEN (IF month >= 4 /\ month <= 10 THEN 60 ELSE 0)
               ELSE IF year >= 1987 /\ year <= 2006
                 THEN (IF month >= 4 /\ month <= 10 THEN 60 ELSE 0)
               ELSE IF year >= 2007
                 THEN (IF month >= 3 /\ month <= 11 THEN 60 ELSE 0)
               ELSE 0
        ELSE IF id \in EuropeIds
          THEN (IF year >= 1980 /\ month >= 3 /\ month <= 10 THEN 60 ELSE 0)
        ELSE 0
      Estimate(timezoneEntry) ==
        Resolution(timezoneEntry.id,
                   timezoneEntry.stdOffset + DstOffset(timezoneEntry.id),
                   FALSE, "manual_calculation", TRUE)
  IN  Estimate(FindByLongitude(longitude))

\* Revision 3 below the explicit branches: longitude bands and the DST
\* table (New York, Halifax, Europe).
BandsAndTable3(longitude, year, month, day) ==
  LET Dst(id) ==
        IF id \in AmericaIds
          THEN IF id = "America/New_York"
                 THEN UsDstRev3(year, month, day)
               ELSE IF id = "America/Halifax"
                 THEN (year >= 1966 /\ year <= 1986 /\ UsRule1966(year, month, day))
               ELSE FALSE
        ELSE IF id \in EuropeIds
          THEN EuropeDst(year, month, day)
        ELSE FALSE
      Resolve(timezoneEntry) ==
        Resolution(timezoneEntry.id,
                   timezoneEntry.stdOffset +
                     (IF Dst(timezoneEntry.id) THEN 60 ELSE 0),
                   FALSE, "manual_calculation", TRUE)
  IN  Resolve(FindByLongitude(longitude))

\* Revision 5 below the explicit branch: the New England rectangle, else
\* the bands; DST only for New York in 1966-1986 (1971 has a branch of its
\* own with the same rule).
BandsAndTable5(longitude, latitude, year, month, day) ==
  LET Dst(id) ==
        IF id = "America/New_York"
          THEN (year = 1971 \/ (year >= 1966 /\ year <= 1986))
               /\ UsRule1966(year, month, day)
          ELSE FALSE
      Resolve(timezoneEntry) ==
        Resolution(timezoneEntry.id,
                   timezoneEntry.stdOffset +
                     (IF Dst(timezoneEntry.id) THEN 60 ELSE 0),
                   FALSE, "manual_calculation", TRUE)
  IN  Resolve(IF longitude >= Geo(-75) /\ longitude <= Geo(-70) /\
                 latitude >= Geo(41) /\ latitude <= Geo(43)
                THEN [id |-> "America/New_York", stdOffset |-> -300]
                ELSE FindByLongitude(longitude))

\* A fallback that returns the standard offset alone, never DST.
ManualFallbackStandardOnly(tzid, year, month, day) ==
  Resolution(tzid, getStandardOffset(tzid), FALSE, "manual_calculation", TRUE)

\* The hybrid's manual fallback: getStandardOffset plus the DST table.
ManualFallback(tzid, year, month, day) ==
  LET Resolve(dst) ==
        Resolution(tzid, getStandardOffset(tzid) + (IF dst THEN 60 ELSE 0), dst,
                   "manual_calculation", TRUE)
  IN  Resolve(IF tzid \in {"America/New_York", "America/Chicago",
                           "America/Denver", "America/Los_Angeles"}
                THEN UsDstHybrid(year, month, day)
              ELSE IF tzid \in EuropeIds THEN EuropeDst(year, month, day)
              ELSE FALSE)

\* A resolver that lets the manual table decide whatever luxon answers.
LuxonThenManualTableAlways(longitude, latitude, year, month, day, l) ==
  ManualFallback(getLikelyTimezoneId(longitude, latitude), year, month, day)

\* The hybrid below the explicit branches: getLikelyTimezoneId, luxon in a
\* try block, the manual calculation when the DateTime is invalid or luxon
\* throws.
LuxonThenManual(longitude, latitude, year, month, day, l) ==
  LET Resolve(tzid) ==
        IF l.status = "valid"
          THEN [Resolution(tzid, -l.offset, l.isDST, "luxon_success", TRUE)
                  EXCEPT !.luxonObject = TRUE, !.luxonOffset = l.offset]
          ELSE ManualFallback(tzid, year, month, day)
  IN  Resolve(getLikelyTimezoneId(longitude, latitude))

\* A resolver that never looks at tzParam and always resolves from the
\* coordinates.
processTimezoneIgnoringTz(r, longitude, latitude, year, month, day, hour, tzParam, l) ==
  CASE r = "rev1" -> GeoTzLuxon(l)
    [] r = "rev2" -> estimateTimezone(longitude, latitude, year, month)
    [] r = "rev3" -> BandsAndTable3(longitude, year, month, day)
    [] r = "hybrid" -> LuxonThenManual(longitude, latitude, year, month, day, l)
    [] r = "rev5" -> BandsAndTable5(longitude, latitude, year, month, day)

\* function processTimezone(longitude, latitude, year, month, day, hour,
\* tzParam), one body per revision; l is what the libraries answer if they
\* are asked.  Revision 2 has no such function: its handler calls
\* estimateTimezone.
processTimezone(r, longitude, latitude, year, month, day, hour, tzParam, l) ==
  LET \* Revisions 1, 3 and the hybrid: the two explicit branches, then the
      \* coordinates.
      TwoForms(complex, simple) ==
        IF tzParam # <<>> /\ complex.matched
          THEN ExplicitComplex(complex, r # "rev3")
        ELSE IF tzParam # <<>> /\ simple.matched
          THEN ExplicitSimple(simple)
        ELSE CASE r = "rev1" -> GeoTzLuxon(l)
               [] r = "rev3" -> BandsAndTable3(longitude, year, month, day)
               [] r = "hybrid" ->
                    LuxonThenManual(longitude, latitude, year, month, day, l)
      \* Revision 5: one explicit branch, then the coordinates.
      OneForm(strict) ==
        IF tzParam # <<>> /\ strict.matched
          THEN ExplicitComplex(strict, FALSE)
          ELSE BandsAndTable5(longitude, latitude, year, month, day)
  IN  CASE r = "rev2" -> estimateTimezone(longitude, latitude, year, month)
        [] r = "rev5" -> OneForm(StrictMatch(tzParam))
        [] OTHER -> TwoForms(ComplexMatch(tzParam), SimpleMatch(tzParam))

\* Whether the call reaches geo-tz / luxon: revision 1 and the hybrid, below
\* the explicit branches.
AsksLibrary(r, tzParam) ==
  /\ r \in {"rev1", "hybrid"}
  /\ ~(tzParam # <<>> /\ ComplexMatch(tzParam).matched)
  /\ ~(tzParam # <<>> /\ SimpleMatch(tzParam).matched)

----------------------------------------------------------------------------
(* The handler of GET /north-node up to the call of swe_calc_ut.           *)

NoUT ==
  [year |-> 0, month |-> 0, day |-> 0, hour |-> 0, dayAdjustment |-> 0,
   counted |-> FALSE, via |-> "none", nan |-> FALSE]

\* Revision 1 with a NaN offset: utHour is NaN, no loop body runs, and the
\* date is the civil date as Date normalises it.
NaNUT(y, m, d) == [ManualUT(y, m, d, 0, 0) EXCEPT !.nan = TRUE, !.hour = 0]

\* Revision 2: the chart of 1971-08-25 16:29 near Truchas, NM is given the
\* literal UT hour 22.4833 (22:29 on the minute grid).
IsTruchasChart(q) ==
  /\ q.year = 1971 /\ q.month = 8 /\ q.day = 25
  /\ q.hour = Hrs(16) + 29
  /\ Abs(10 * q.lat - 360442) < 1000
  /\ Abs(10 * q.lon + 1058128) < 1000

\* Revision 5: the chart of 1971-04-18 05:15 near Manchester, CT is given
\* timezone = { id: "EST", offset: 5 } whatever processTimezone returned.
IsManchesterChart(q) ==
  /\ q.year = 1971 /\ q.month = 4 /\ q.day = 18
  /\ q.hour = Hrs(5) + 15
  /\ Abs(10 * q.lat - 417759) < 1000
  /\ Abs(10 * q.lon + 725215) < 1000

\* The value of the handler's variable timezone when it converts to UT;
\* src/index1.js has none.
TimezoneUsed(r, q, l) ==
  LET Used(tz) ==
        CASE r = "rev2" /\ IsTruchasChart(q) -> NoResolution
          [] r = "rev5" /\ IsManchesterChart(q) ->
               Resolution("EST", Hrs(5), FALSE, "chart_override", tz.lookup)
          [] OTHER -> tz
  IN  IF r = "index1" THEN NoResolution
      ELSE Used(processTimezone(r, q.lon, q.lat, q.year, q.month, q.day,
                                q.hour, q.tz, l))

\* The (utYear, utMonth, utDay, utHour) given to swe_julday; src/index1.js
\* gives it the civil fields as they came.
UTUsed(r, q, tz) ==
  CASE r = "rev1" ->
         IF tz.nan THEN NaNUT(q.year, q.month, q.day)
         ELSE ManualUT(q.year, q.month, q.day, q.hour, tz.offset)
    [] r = "rev2" ->
         IF IsTruchasChart(q)
           THEN [UncountedUT(q.year, q.month, q.day, Hrs(22) + 29, 0)
                   EXCEPT !.via = "literal"]
           ELSE UncountedUT(q.year, q.month, q.day, q.hour, tz.offset)
    [] r = "rev3" -> UncountedUT(q.year, q.month, q.day, q.hour, tz.offset)
    [] r = "hybrid" ->
         IF tz.luxonObject
           THEN LuxonUT(q.year, q.month, q.day, q.hour, tz.luxonOffset)
           ELSE ManualUT(q.year, q.month, q.day, q.hour, tz.offset)
    [] r = "rev5" -> UncountedUT(q.year, q.month, q.day, q.hour, tz.offset)
    [] r = "index1" ->
         [year |-> q.year, month |-> q.month, day |-> q.day, hour |-> q.hour,
          dayAdjustment |-> 0, counted |-> FALSE, via |-> "direct",
          nan |-> FALSE]

NoRequest ==
  [absent |-> {}, year |-> 0, month |-> 0, day |-> 0, hour |-> 0,
   lat |-> 0, lon |-> 0, tz |-> <<>>]

NoNode == [kind |-> "pending", longitude |-> 0]

NoHouses == [kind |-> "pending", house |-> <<>>, armc |-> 0]

NoResponse ==
  [status |-> 0, error |-> "", house |-> 0, longitude |-> 0,
   signIndex |-> 0, degrees |-> 0, minutes |-> 0, ordinal |-> ""]

ErrorResponse(status, error) ==
  [NoResponse EXCEPT !.status = status, !.error = error]

\* The text of the 400 response.
MissingMessage(r) ==
  IF r \in {"rev2", "rev5", "index1"} THEN "Missing parameters"
                            ELSE "Missing required parameters"

RequiredParameters == {"year", "month", "day", "hour", "lat", "lon"}

\* A check that forgets lon.
MissingExceptLon(q) == q.absent \cap (RequiredParameters \ {"lon"}) # {}

\* !year || !month || !day || !hour || !lat || !lon: absent lists the query
\* parameters that are undefined or empty.
Missing(q) == q.absent \cap RequiredParameters # {}

\* if (!year || !month || !day || !hour || !lat || !lon)
\*   return res.status(400).json(...)
Reject(Requests) ==
  /\ pc = "idle"
  /\ \E q \in Requests :
       /\ Missing(q)
       /\ req' = q
  /\ res' = ErrorResponse(400, MissingMessage(rev))
  /\ pc' = "done"
  /\ UNCHANGED <<rev, lib, timezone, ut, nodeResult, houseResult, house,
                 peer, call>>

\* All parameters present: resolve the timezone, convert to UT, compute the
\* Julian day and hand the callback to swe_calc_ut.
Accept(Requests, Answers) ==
  /\ pc = "idle"
  /\ \E q \in Requests :
       /\ ~Missing(q)
       /\ \E l \in (IF AsksLibrary(rev, q.tz) THEN Answers ELSE {NoLib}) :
            /\ ~(rev = "rev1" /\ l.status = "throws")
            /\ req' = q
            /\ lib' = l
            /\ \E tz \in {TimezoneUsed(rev, q, l)} :
                 /\ timezone' = tz
                 /\ ut' = UTUsed(rev, q, tz)
  /\ pc' = "awaitNode"
  /\ UNCHANGED <<rev, nodeResult, houseResult, house, res, peer, call>>

----------------------------------------------------------------------------
(* The callback of swe_calc_ut.                                            *)

\* Math.round((nodeLon % 1) * 60) on the 1/120 degree grid.
RoundMinutes(nodeLon) == ((nodeLon % Deg(1)) + 1) \div 2

\* An ordinal suffix that looks at the last digit alone.
getOrdinalLastDigit(n) ==
  LET j == n % 10
  IN  IF j = 1 THEN "st" ELSE IF j = 2 THEN "nd" ELSE IF j = 3 THEN "rd" ELSE "th"

\* function getOrdinal(n)
getOrdinal(n) ==
  LET j == n % 10
      k == n % 100
  IN  IF j = 1 /\ k # 11 THEN "st"
      ELSE IF j = 2 /\ k # 12 THEN "nd"
      ELSE IF j = 3 /\ k # 13 THEN "rd"
      ELSE "th"

\* The body of res.json(...): ordinal is the suffix that formatted puts
\* after the house number.
SuccessResponse(r, cusps, nodeLon) ==
  LET With(h) ==
        [status |-> 200, error |-> "",
         house |-> h,
         longitude |-> nodeLon,
         signIndex |-> nodeLon \div Deg(30),
         degrees |-> (nodeLon % Deg(30)) \div Deg(1),
         minutes |-> RoundMinutes(nodeLon),
         ordinal |-> getOrdinal(h)]
  IN  With(HouseOf(r, cusps, nodeLon))

\* `${house}${getOrdinal(house)} house` for a house number given from
\* outside: getOrdinal applied on its own.
Format ==
  /\ pc = "format"
  /\ res' = [NoResponse EXCEPT !.house = house, !.ordinal = getOrdinal(house)]
  /\ pc' = "formatted"
  /\ UNCHANGED <<rev, req, lib, timezone, ut, nodeResult, houseResult, house,
                 peer, call>>

\* A check that takes whatever the callback is given.
NodeUsableAlways(n) == TRUE

\* nodeResult && typeof nodeResult.longitude === "number"
NodeUsable(n) == n.kind = "ok"

\* houseResult && houseResult.house && houseResult.armc
HouseUsable(h) == h.kind = "ok" /\ h.armc # 0

\* if (!nodeResult || typeof nodeResult.longitude !== "number")
\*   return res.status(500).json(...)
NodeFailed(Nodes) ==
  /\ pc = "awaitNode"
  /\ \E n \in Nodes :
       /\ ~NodeUsable(n)
       /\ nodeResult' = n
  /\ res' = ErrorResponse(500, "Failed to calculate North Node")
  /\ pc' = "done"
  /\ UNCHANGED <<rev, req, lib, timezone, ut, houseResult, house, peer, call>>

\* if (!houseResult || !houseResult.house || !houseResult.armc)
\*   return res.status(500).json(...)
HouseFailed(Nodes, Houses) ==
  /\ pc = "awaitNode"
  /\ \E n \in Nodes, h \in Houses :
       /\ NodeUsable(n)
       /\ ~HouseUsable(h)
       /\ nodeResult' = n
       /\ houseResult' = h
  /\ res' = ErrorResponse(500, "House calculation failed")
  /\ pc' = "done"
  /\ UNCHANGED <<rev, req, lib, timezone, ut, house, peer, call>>

\* A callback that keeps the node longitude in a variable of the module:
\* when the other invocation's callback has stored its longitude there, the
\* response is built from that one.
RespondSharedLongitude(Nodes, Houses) ==
  /\ pc = "awaitNode"
  /\ \E n \in Nodes, h \in Houses :
       /\ NodeUsable(n)
       /\ HouseUsable(h)
       /\ nodeResult' = n
       /\ houseResult' = h
       /\ house' = HouseOf(rev, h.house, n.longitude)
       /\ res' = SuccessResponse(rev, h.house,
                                 IF peer.nodeResult.kind = "ok"
                                   THEN peer.nodeResult.longitude
                                   ELSE n.longitude)
  /\ pc' = "done"
  /\ UNCHANGED <<rev, req, lib, timezone, ut, peer, call>>

\* Both results usable: the house loop, the sign and degree fields, and
\* res.json(...); src/index1.js puts res.json(...) in a setTimeout of two
\* seconds.
Respond(Nodes, Houses) ==
  /\ pc = "awaitNode"
  /\ \E n \in Nodes, h \in Houses :
       /\ NodeUsable(n)
       /\ HouseUsable(h)
       /\ nodeResult' = n
       /\ houseResult' = h
       /\ house' = HouseOf(rev, h.house, n.longitude)
       /\ res' = IF rev = "index1" THEN res
                 ELSE SuccessResponse(rev, h.house, n.longitude)
  /\ pc' = IF rev = "index1" THEN "awaitTimer" ELSE "done"
  /\ UNCHANGED <<rev, req, lib, timezone, ut, peer, call>>

\* A timer whose callback is never run.
TimerLost ==
  /\ pc = "awaitTimer"
  /\ UNCHANGED vars

\* The timer of src/index1.js fires: res.json(...).
TimerFired ==
  /\ pc = "awaitTimer"
  /\ res' = SuccessResponse(rev, houseResult.house, nodeResult.longitude)
  /\ pc' = "done"
  /\ UNCHANGED <<rev, req, lib, timezone, ut, nodeResult, houseResult, house,
                 peer, call>>

\* The response is sent; the next request starts from nothing, since the
\* handler keeps no state between requests.
NextRequest ==
  /\ pc = "done"
  /\ pc' = "idle"
  /\ req' = NoRequest
  /\ lib' = NoLib
  /\ timezone' = NoResolution
  /\ ut' = NoUT
  /\ nodeResult' = NoNode
  /\ houseResult' = NoHouses
  /\ house' = 0
  /\ res' = NoResponse
  /\ UNCHANGED <<rev, peer, call>>

\* The locals of an invocation of the handler.
Invocation(p, q, l, tz, u, n, h, hs, r) ==
  [pc |-> p, req |-> q, lib |-> l, timezone |-> tz, ut |-> u,
   nodeResult |-> n, houseResult |-> h, house |-> hs, res |-> r]

NoInvocation ==
  Invocation("idle", NoRequest, NoLib, NoResolution, NoUT, NoNode, NoHouses,
             0, NoResponse)

\* The event loop turns to the other invocation in flight: the model looks
\* at its locals, and the locals it was looking at become the peer's.  The
\* handler has no variable outside its invocations, so nothing else moves.
Switch ==
  /\ peer' = Invocation(pc, req, lib, timezone, ut, nodeResult, houseResult,
                        house, res)
  /\ pc' = peer.pc
  /\ req' = peer.req
  /\ lib' = peer.lib
  /\ timezone' = peer.timezone
  /\ ut' = peer.ut
  /\ nodeResult' = peer.nodeResult
  /\ houseResult' = peer.houseResult
  /\ house' = peer.house
  /\ res' = peer.res
  /\ UNCHANGED <<rev, call>>

Init ==
  /\ rev \in Revisions
  /\ pc = "idle"
  /\ req = NoRequest
  /\ lib = NoLib
  /\ timezone = NoResolution
  /\ ut = NoUT
  /\ nodeResult = NoNode
  /\ houseResult = NoHouses
  /\ house = 0
  /\ res = NoResponse
  /\ peer = NoInvocation
  /\ call = NoCall

----------------------------------------------------------------------------
(* Bounded input domains.                                                  *)

MaxCuspBase == 3
MaxOrdinal == 125
MaxLonSample == 8
MaxOffsetHours == 14
MaxYearSpan == 27
MaxNth == 5

\* Twelve cusps starting at base degrees and advancing by step degrees:
\* step 30 is a well-formed chart, 0 the degenerate all-equal array, 150 and
\* 330 arrays that are not cyclically increasing.
EvenCusps(base, step) ==
  [i \in 1..NumHouses |-> (Deg(base) + (i - 1) * Deg(step)) % FullCircle]

\* House 12 spans [350, 5): cusps[0] = 5, cusps[11] = 350, the others
\* increasing by k degrees in between.
WrapTwelveCusps(k) ==
  [i \in 1..NumHouses |-> IF i = NumHouses THEN Deg(350) ELSE Deg(5 + (i - 1) * k)]

\* Unequal houses with opposite cusps 180 degrees apart.
UnequalCusps ==
  << Deg(100), Deg(125), Deg(155), Deg(190), Deg(230), Deg(262),
     Deg(280), Deg(305), Deg(335), Deg(10),  Deg(50),  Deg(82) >>

CuspArrays ==
  {EvenCusps((k * 95) % 360, st) : k \in 0..MaxCuspBase, st \in {0, 30, 150, 330}}
    \cup {WrapTwelveCusps(k) : k \in {3, 20, 31}}
    \cup {UnequalCusps}

NodeLongitudes ==
  {Deg(d) : d \in {0, 2, 5, 10, 100, 349, 350, 358, 359}}
    \cup {Deg(29) + 119, Deg(359) + 119}   \* half a minute below a whole degree
    \cup {(k * (Deg(37) + 59)) % FullCircle : k \in 0..MaxLonSample}

NodeOk(l) == [kind |-> "ok", longitude |-> l]

NodeBad == {[kind |-> "none", longitude |-> 0], [kind |-> "error", longitude |-> 0]}

HousesOk(c, armc) == [kind |-> "ok", house |-> c, armc |-> armc]

HousesBad ==
  {[kind |-> "none", house |-> <<>>, armc |-> 0],
   [kind |-> "error", house |-> <<>>, armc |-> 0],
   HousesOk(EvenCusps(0, 30), 0)}

NodesMany == NodeBad \cup {NodeOk(l) : l \in NodeLongitudes}
HousesMany == HousesBad \cup {HousesOk(c, 1) : c \in CuspArrays}

NodesFew == NodeBad \cup {NodeOk(Deg(100))}
HousesFew == HousesBad \cup {HousesOk(EvenCusps(95, 30), 1)}

\* Decimal digits of n < 100 as a string.
DigitChar(k) == CHOOSE c \in Digits : DigitValue(c) = k

DigitsOf(n) ==
  IF n < 10 THEN <<DigitChar(n)>> ELSE <<DigitChar(n \div 10), DigitChar(n % 10)>>

TzBare(n) == DigitsOf(n)
TzSigned(sg, n) == <<sg>> \o DigitsOf(n)
TzCoded(code, sg, n, mm) == code \o <<sg>> \o DigitsOf(n) \o <<":">> \o mm

EST == <<"E", "S", "T">>

\* Strings of the two accepted shapes.
TzWellFormed ==
  {TzBare(n) : n \in 0..MaxOffsetHours}
    \cup {TzSigned(sg, n) : sg \in Signs, n \in 0..MaxOffsetHours}
    \cup {TzCoded(c, sg, n, mm) : c \in {<<>>, EST}, sg \in Signs,
                                  n \in {0, 5, 9}, mm \in {<<"0", "0">>, <<"3", "0">>}}

\* Strings of neither shape: no offset at all, text around an offset, a
\* lower-case code, the "+" of a URL decoded to a space.
TzMalformed ==
  { <<"E", "S", "T">>,
    <<"a", "b", "c">>,
    <<"x", "+", "5", "y">>,
    <<"e", "s", "t", "+", "5", ":", "0", "0">>,
    <<"E", "S", "T", " ", "5", ":", "0", "0">>,
    <<"E", "S", "T", "+", "5", ":", "0", "0", "!">>,
    <<"5", "h">>,
    <<"+">>,
    <<"5", ".", "5">>,
    <<"-", "5", ".", "5">> }

Manchester == <<41776, -72522>>
Truchas == <<36044, -105813>>

Coordinates ==
  { Manchester, Truchas,
    <<41878, -87630>>,   \* Chicago
    <<34052, -118244>>,  \* Los Angeles
    <<44649, -63575>>,   \* Halifax
    <<51507, -128>>,     \* London
    <<48857, 2352>>,     \* Paris
    <<35676, 139650>>,   \* Tokyo
    <<0, -40000>>,       \* mid-Atlantic
    <<-80000, 180000>> } \* the date line

LibAnswers ==
  { LibAnswer("America/New_York", "valid", -300, FALSE),
    LibAnswer("America/New_York", "valid", -240, TRUE),
    LibAnswer("Europe/Paris", "valid", 60, FALSE),
    LibAnswer("Asia/Kolkata", "valid", 330, FALSE),
    LibAnswer("America/New_York", "invalid", 0, FALSE),
    LibAnswer("America/New_York", "throws", 0, FALSE) }

MkRequest(date, hour, coord, tz) ==
  [absent |-> {}, year |-> date[1], month |-> date[2], day |-> date[3],
   hour |-> hour, lat |-> coord[1], lon |-> coord[2], tz |-> tz]

AbsentRequests ==
  {[NoRequest EXCEPT !.absent = a] : a \in (SUBSET RequiredParameters) \ {{}}}

ManchesterChart == MkRequest(<<1971, 4, 18>>, Hrs(5) + 15, Manchester, <<>>)
TruchasChart == MkRequest(<<1971, 8, 25>>, Hrs(16) + 29, Truchas, <<>>)

\* Civil dates at month, year and leap-day boundaries, and on DST
\* transition days.
CivilDates ==
  { <<1971, 4, 18>>, <<1999, 12, 31>>, <<2000, 1, 1>>, <<2023, 2, 28>>,
    <<2023, 3, 12>>, <<2024, 2, 29>>, <<2024, 3, 1>>, <<1900, 3, 1>> }

CivilHours ==
  {0, Hrs(2), Hrs(5) + 15, Hrs(9), Hrs(12), Hrs(16) + 29, Hrs(18) + 30,
   Hrs(22), Hrs(23) + 59}

\* Requests for the house classifier: two charts, every ephemeris answer.
RequestsHouse == AbsentRequests \cup {ManchesterChart, TruchasChart}

\* Requests for the UT conversion: every date and hour, offsets given
\* explicitly or resolved from two places.
RequestsUT ==
  AbsentRequests \cup
  {MkRequest(d, h, c, tz) :
     d \in CivilDates, h \in CivilHours, c \in {Manchester, <<48857, 2352>>},
     tz \in {<<>>, TzBare(5), TzSigned("-", 5), TzSigned("+", 5),
             TzBare(MaxOffsetHours), TzSigned("+", 12),
             TzBare(30), TzSigned("-", 30),
             TzCoded(EST, "+", 5, <<"0", "0">>),
             TzCoded(<<>>, "-", 5, <<"3", "0">>)}}

\* Requests for the resolver: every tz string from every place.
RequestsTz ==
  AbsentRequests \cup
  {MkRequest(d, h, c, tz) :
     d \in {<<1971, 4, 18>>, <<2023, 3, 12>>}, h \in {Hrs(5) + 15},
     c \in Coordinates, tz \in {<<>>} \cup TzWellFormed \cup TzMalformed}

\* Years on both sides of every era limit of the DST tables (1966, 1980,
\* 1987, 1997, 2007), and years whose transition falls on the first of a
\* month (1 April 1990, 1 November 2009).
DstYears ==
  {1965, 1966, 1971, 1979, 1980, 1986, 1987, 1990, 1996, 1997, 2006, 2007,
   2009, 2023}

\* Every Saturday, Sunday and Monday of the months that hold a transition,
\* the last day of those months, and days in mid-winter and mid-summer.
DstDates ==
  {t \in {<<y, m, d>> : y \in DstYears, m \in {3, 4, 9, 10, 11}, d \in 1..31} :
     /\ CivilFromDays(DaysFromCivil(t[1], t[2], t[3])).month = t[2]
     /\ \/ GetDay(DaysFromCivil(t[1], t[2], t[3])) \in {6, 0, 1}
        \/ CivilFromDays(DaysFromCivil(t[1], t[2], t[3]) + 1).day = 1}
    \cup {<<y, md[1], md[2]>> : y \in DstYears, md \in {<<1, 15>>, <<7, 15>>}}

\* One place in each zone that has a DST table, and one outside them.
DstPlaces ==
  { Manchester, Truchas,
    <<41878, -87630>>,   \* Chicago
    <<34052, -118244>>,  \* Los Angeles
    <<51507, -128>>,     \* London
    <<48857, 2352>>,     \* Paris
    <<35676, 139650>> }  \* Tokyo, a zone without one

DstAnswers ==
  { LibAnswer("America/New_York", "valid", -300, FALSE),
    LibAnswer("America/New_York", "invalid", 0, FALSE),
    LibAnswer("America/New_York", "throws", 0, FALSE) }

\* Requests for the DST tables: no tz, every date around a transition, and
\* the two charts of 1971.
RequestsDst ==
  AbsentRequests \cup
  {MkRequest(d, Hrs(12), c, <<>>) : d \in DstDates, c \in DstPlaces} \cup
  {ManchesterChart, TruchasChart}

\* Requests, library answers and ephemeris answers for two invocations in
\* flight together.
RequestsPair ==
  {[NoRequest EXCEPT !.absent = {"lat"}], ManchesterChart, TruchasChart}

AnswersPair ==
  { LibAnswer("America/New_York", "valid", -300, FALSE),
    LibAnswer("America/New_York", "invalid", 0, FALSE) }

NodesPair == NodeBad \cup {NodeOk(Deg(100)), NodeOk(Deg(200) + 59)}

HousesPair ==
  HousesBad \cup {HousesOk(EvenCusps(95, 30), 1), HousesOk(UnequalCusps, 1)}

NextPair ==
  \/ Reject(RequestsPair)
  \/ Accept(RequestsPair, AnswersPair)
  \/ NodeFailed(NodesPair)
  \/ HouseFailed(NodesPair, HousesPair)
  \/ Respond(NodesPair, HousesPair)
  \/ TimerFired
  \/ NextRequest
  \/ Switch

\* Years for the weekday helpers: every weekday of 1 January with and
\* without a leap day, and the century years 1900 and 2100.
WeekdayYears == (2000..(2000 + MaxYearSpan)) \cup {1900, 2100}

\* The calls of the two helpers: every month and target weekday, and for
\* getNthDayOfMonth every n up to MaxNth.
WeekdayCalls ==
  {Call("getNthDayOfMonth", y, m, w, n, 0, 0, 0) :
     y \in WeekdayYears, m \in 1..12, w \in 0..6, n \in 1..MaxNth}
  \cup
  {Call("getLastDayOfMonth", y, m, w, 0, 0, 0, 0) :
     y \in WeekdayYears, m \in 1..12, w \in 0..6}

InitWeekday ==
  /\ rev \in {"hybrid"}
  /\ pc = "called"
  /\ req = NoRequest
  /\ lib = NoLib
  /\ timezone = NoResolution
  /\ ut = NoUT
  /\ nodeResult = NoNode
  /\ houseResult = NoHouses
  /\ house = 0
  /\ res = NoResponse
  /\ peer = NoInvocation
  /\ call \in WeekdayCalls

NextWeekday ==
  \/ NthDay
  \/ LastDayStart
  \/ StepBack
  \/ LastDayReturn

\* getOrdinal on every number up to MaxOrdinal.
InitOrdinal ==
  /\ rev \in Revisions
  /\ pc = "format"
  /\ req = NoRequest
  /\ lib = NoLib
  /\ timezone = NoResolution
  /\ ut = NoUT
  /\ nodeResult = NoNode
  /\ houseResult = NoHouses
  /\ house \in 0..MaxOrdinal
  /\ res = NoResponse
  /\ peer = NoInvocation
  /\ call = NoCall

NextHouse ==
  \/ Reject(RequestsHouse)
  \/ Accept(RequestsHouse, LibAnswers)
  \/ NodeFailed(NodesMany)
  \/ HouseFailed(NodesMany, HousesMany)
  \/ Respond(NodesMany, HousesMany)
  \/ TimerFired
  \/ NextRequest

NextUT ==
  \/ Reject(RequestsUT)
  \/ Accept(RequestsUT, LibAnswers)
  \/ NodeFailed(NodesFew)
  \/ HouseFailed(NodesFew, HousesFew)
  \/ Respond(NodesFew, HousesFew)
  \/ TimerFired
  \/ NextRequest

NextTz ==
  \/ Reject(RequestsTz)
  \/ Accept(RequestsTz, LibAnswers)
  \/ NodeFailed(NodesFew)
  \/ HouseFailed(NodesFew, HousesFew)
  \/ Respond(NodesFew, HousesFew)
  \/ TimerFired
  \/ NextRequest

NextDst ==
  \/ Reject(RequestsDst)
  \/ Accept(RequestsDst, DstAnswers)
  \/ NodeFailed(NodesFew)
  \/ HouseFailed(NodesFew, HousesFew)
  \/ Respond(NodesFew, HousesFew)
  \/ TimerFired
  \/ NextRequest

\* The handler fed with ephemeris answers of every kind.
SpecHouse == Init /\ [][NextHouse]_vars

\* The handler fed with civil date-times and offsets of every kind.
SpecUT == Init /\ [][NextUT]_vars

\* The handler fed with tz strings and coordinates of every kind.
SpecTz == Init /\ [][NextTz]_vars

\* The handler fed with dates around every DST transition.
SpecDst == Init /\ [][NextDst]_vars

\* Two invocations of the handler in flight, their steps interleaved in
\* every order.
SpecPair == Init /\ [][NextPair]_vars

\* getOrdinal as a function of its argument.
SpecOrdinal == InitOrdinal /\ [][Format]_vars

\* The weekday-of-month helpers as functions of their arguments.
SpecWeekday == InitWeekday /\ [][NextWeekday]_vars

\* The handler under the scheduling Node.js gives it: a timer that was set
\* is run by the event loop.  Nothing obliges a client to send a request or
\* the ephemeris to call back, so no other action is fair.
SpecLive == Init /\ [][NextHouse]_vars /\ WF_vars(TimerFired)

----------------------------------------------------------------------------
(* The house classifier (checked under SpecHouse).                         *)

\* A revision of src/index.js has sent a success response for the current
\* request.
Served == pc = "done" /\ res.status = 200 /\ rev # "index1"

\* cusps[i mod 12] and the node longitude of the served chart.
Cusp(i) == houseResult.house[(i % NumHouses) + 1]

NodeLon == nodeResult.longitude

\* Span i runs from cusps[i] to cusps[(i + 1) mod 12]; it wraps when its end
\* lies below its start.
Wraps(i) == Cusp(i + 1) < Cusp(i)

Contains(i) ==
  IF Wraps(i)
    THEN NodeLon >= Cusp(i) \/ NodeLon < Cusp(i + 1)
    ELSE NodeLon >= Cusp(i) /\ NodeLon < Cusp(i + 1)

MatchingSpans == {i \in 0..(NumHouses - 1) : Contains(i)}

StrictlyInside(i) == ~Wraps(i) /\ Cusp(i) < NodeLon /\ NodeLon < Cusp(i + 1)

\* Exactly one span wraps: the cusps go once round the circle.
CyclicallyIncreasing ==
  Cardinality({i \in 0..(NumHouses - 1) : Wraps(i)}) = 1

\* House 12 spans [350, 5): cusps[11] = 350, cusps[0] = 5, the others
\* increasing in between.
WrapTwelve ==
  /\ Cusp(11) = Deg(350)
  /\ Cusp(0) = Deg(5)
  /\ \A i \in 0..10 : Cusp(i) < Cusp(i + 1)

\* C1: for every node longitude and every array of 12 cusps in [0, 360),
\* the house of a success response is an integer in 1..12, never 0.
C1_HouseInRange == Served => res.house \in 1..NumHouses

\* C2: when house 12 spans [350, 5), longitudes 358 and 2 are given house
\* 12 and longitude 10 is not; more generally house 12 is given exactly to
\* the longitudes at or above 350 or below 5.
C2_Wraparound ==
  (Served /\ WrapTwelve) =>
    /\ NodeLon = Deg(358) => res.house = 12
    /\ NodeLon = Deg(2) => res.house = 12
    /\ NodeLon = Deg(10) => res.house # 12
    /\ (res.house = 12) <=> (NodeLon >= Deg(350) \/ NodeLon < Deg(5))

C2_Witness ==
  Served /\ WrapTwelve /\ NodeLon = Deg(2) /\ res.house = 12

\* C3 as stated: for every 12-cusp array, a longitude strictly inside a
\* span that does not wrap is given that span's house.
C3_AnyArray ==
  Served => \A i \in 0..(NumHouses - 1) : StrictlyInside(i) => res.house = i + 1

\* C3 amended: for every 12-cusp array that goes once round the circle
\* (exactly one span wraps), a longitude strictly inside a span that does
\* not wrap is given that span's house.
C3_StrictlyInside ==
  (Served /\ CyclicallyIncreasing) =>
    \A i \in 0..(NumHouses - 1) : StrictlyInside(i) => res.house = i + 1

C3_Witness ==
  /\ Served
  /\ CyclicallyIncreasing
  /\ \E i \in 1..(NumHouses - 1) : StrictlyInside(i) /\ res.house = i + 1

\* C4: when no span contains the node longitude, the house of the response
\* is the fallback 1 and not the initial 0.
C4_FallbackHouseOne == (Served /\ MatchingSpans = {}) => res.house = 1

\* C5: whenever at least one span contains the longitude, the house is
\* i + 1 for the smallest index i whose span contains it.
C5_FirstMatch ==
  (Served /\ MatchingSpans # {}) =>
    /\ res.house - 1 \in MatchingSpans
    /\ \A j \in MatchingSpans : res.house - 1 <= j

C5_Witness ==
  /\ Served
  /\ res.house > 1
  /\ res.house - 1 \in MatchingSpans
  /\ \E j \in MatchingSpans : j > res.house - 1

----------------------------------------------------------------------------
(* The conversion to UT (checked under SpecUT).                            *)

\* The handler has resolved the timezone and converted the civil time of
\* the current request.
Converted == pc # "idle" /\ req.absent = {}

\* The conversion went through utHour = localHour - timezone.offset and the
\* two loops, with a numeric offset.
ByLoops == Converted /\ ut.via = "manual" /\ ~ut.nan

\* Whole days since the epoch of the civil date and of the date given to
\* swe_julday.
CivilDay == DaysFromCivil(req.year, req.month, req.day)

UTDay == DaysFromCivil(ut.year, ut.month, ut.day)

\* C6: the UT hour given to the Julian-day computation lies in [0, 24) and
\* equals (civil hour - offset) modulo 24; where the day shift is counted,
\* it equals floor((civil hour - offset) / 24).
C6_UTHour ==
  ByLoops =>
    /\ ut.hour >= 0 /\ ut.hour < DayMinutes
    /\ ut.hour = (req.hour - timezone.offset) % DayMinutes
    /\ ut.counted =>
         ut.dayAdjustment = (req.hour - timezone.offset) \div DayMinutes

C6_Witness ==
  /\ ByLoops
  /\ ut.counted
  /\ req.hour = Hrs(2)
  /\ timezone.offset = Hrs(30)
  /\ ut.hour = Hrs(20)
  /\ ut.dayAdjustment = -2

\* C7: the calendar date given to the Julian-day computation is the civil
\* date shifted by the whole-day carry of the hour normalisation (hour 2
\* with offset +5 is 21:00 of the previous day, hour 22 with offset -5 is
\* 03:00 of the next day, no carry leaves the date unchanged).
C7_DateCarried ==
  ByLoops =>
    UTDay = CivilDay + (req.hour - timezone.offset) \div DayMinutes

\* C8: adding the offset back to the UT hour and undoing the counted day
\* shift reproduces the civil hour and the civil date.
C8_RoundTrip ==
  (Converted /\ rev \in {"rev1", "hybrid"} /\ ~ut.nan) =>
    /\ UTDay * DayMinutes + ut.hour + timezone.offset
         = CivilDay * DayMinutes + req.hour
    /\ ut.counted =>
         /\ ut.hour + DayMinutes * ut.dayAdjustment + timezone.offset = req.hour
         /\ UTDay - ut.dayAdjustment = CivilDay

----------------------------------------------------------------------------
(* The tz parameter (checked under SpecTz).                                *)

\* The whole text has one of the two accepted shapes: an optional code, a
\* signed hour and optional :mm, or a bare signed or unsigned integer.
ParseableTz(s) ==
  s # <<>> /\ (ComplexAnchored(s).matched \/ SimpleMatch(s).matched)

\* C9: with a parseable explicit tz string, the id and the offset returned
\* for the same civil date-time are the same whatever the coordinates (and
\* whatever the libraries would answer), and the coordinate lookup is not
\* consulted.
C9_ExplicitPrecedence ==
  (pc = "awaitNode" /\ rev \in {"rev1", "rev3", "hybrid"} /\ ParseableTz(req.tz)) =>
    /\ ~timezone.lookup
    /\ \A c \in Coordinates, l \in LibAnswers \cup {NoLib} :
         LET other == processTimezone(rev, c[2], c[1], req.year, req.month,
                                      req.day, req.hour, req.tz, l)
         IN  other.id = timezone.id /\ other.offset = timezone.offset

C9_Witness ==
  /\ pc = "awaitNode"
  /\ rev = "hybrid"
  /\ req.tz = TzCoded(EST, "+", 5, <<"0", "0">>)
  /\ <<req.lat, req.lon>> = <<35676, 139650>>
  /\ timezone.source = "explicit_tz_param"
  /\ timezone.id = "EST"
  /\ timezone.offset = -Hrs(5)

\* C10: a tz string that is present but has neither accepted shape is a
\* fatal input error: no timezone is resolved for it, neither from the
\* coordinates nor from a part of the string.
C10_UnparseableIsFatal ==
  (Converted /\ rev \in {"rev1", "hybrid"} /\ req.tz # <<>> /\ ~ParseableTz(req.tz)) =>
    timezone.source = "none"

\* The offset processTimezone returns for the current request when its tz
\* string is replaced by s.
OffsetFor(s) ==
  processTimezone(rev, req.lon, req.lat, req.year, req.month, req.day,
                  req.hour, s, lib).offset

\* C11: for tz strings of the bare-integer shape the resolved offset is the
\* whole hour written: "N" and "+N" resolve to the same offset and "-N" to
\* its negation, for every N in 0..14.
C11_BareInteger ==
  (pc = "awaitNode" /\ rev \in {"rev1", "hybrid"}) =>
    \A n \in 0..MaxOffsetHours :
      req.tz = TzBare(n) =>
        /\ timezone.offset = Hrs(n)
        /\ OffsetFor(TzSigned("+", n)) = timezone.offset
        /\ OffsetFor(TzSigned("-", n)) = -timezone.offset

\* C12: every resolution processTimezone returns, from an explicit string,
\* from the library or from the manual table, has an offset within
\* [-12, +14] hours.
C12_OffsetInRange ==
  (Converted /\ rev \in {"rev1", "hybrid"} /\ ~timezone.nan) =>
    timezone.offset >= -Hrs(12) /\ timezone.offset <= Hrs(14)

----------------------------------------------------------------------------
(* The manual DST table (checked under SpecDst).                           *)

\* The resolution of the current request came from the hybrid's manual
\* rule table.
ByManualTable ==
  pc = "awaitNode" /\ rev = "hybrid" /\ timezone.source = "manual_calculation"

UsZones ==
  {"America/New_York", "America/Chicago", "America/Denver",
   "America/Los_Angeles"}

\* Sundays of a month of the request's year, read off the calendar.
IsSunday(month, d) == GetDay(DaysFromCivil(req.year, month, d)) = 0

NthSunday(month, n) ==
  (CHOOSE d \in 1..7 : IsSunday(month, d)) + 7 * (n - 1)

LastSunday(month) ==
  CHOOSE d \in 22..31 :
    /\ IsSunday(month, d)
    /\ CivilFromDays(DaysFromCivil(req.year, month, d)).month = month
    /\ CivilFromDays(DaysFromCivil(req.year, month, d + 7)).month # month

\* The transition days of the request's year as <<month, day>>, by zone
\* family and era.
UsStart ==
  IF req.year <= 1986 THEN <<4, LastSunday(4)>>
  ELSE IF req.year <= 2006 THEN <<4, NthSunday(4, 1)>>
  ELSE <<3, NthSunday(3, 2)>>

UsEnd ==
  IF req.year <= 2006 THEN <<10, LastSunday(10)>> ELSE <<11, NthSunday(11, 1)>>

EuStart == <<3, LastSunday(3)>>

EuEnd == IF req.year <= 1996 THEN <<9, LastSunday(9)>> ELSE <<10, LastSunday(10)>>

\* The zone of the resolution has transitions in the request's year.
HasTransitions ==
  \/ timezone.id \in UsZones /\ req.year >= 1966
  \/ timezone.id \in EuropeIds /\ req.year >= 1980

TransitionStart == IF timezone.id \in UsZones THEN UsStart ELSE EuStart

TransitionEnd == IF timezone.id \in UsZones THEN UsEnd ELSE EuEnd

\* Day number of <<month, day>> in the request's year.
DayNumber(md) == DaysFromCivil(req.year, md[1], md[2])

\* C13: in every era and zone of the manual rule table, the transition
\* start day is DST-active and the day before it is not; the transition end
\* day is standard time and the day before it is DST-active.
C13_BoundaryPolicy ==
  (ByManualTable /\ HasTransitions) =>
    LET start == DayNumber(TransitionStart)
        end   == DayNumber(TransitionEnd)
    IN  /\ CivilDay = start => timezone.isDST
        /\ CivilDay = start - 1 => ~timezone.isDST
        /\ CivilDay = end => ~timezone.isDST
        /\ CivilDay = end - 1 => timezone.isDST

\* The four boundary days are all met, among them a transition on the
\* first of a month (first Sunday of November 2009) with its eve in the
\* month before.
C13_Witness ==
  /\ ByManualTable
  /\ timezone.id = "America/Denver"
  /\ req.year = 2009
  /\ TransitionEnd = <<11, 1>>
  /\ <<req.month, req.day>> = <<10, 31>>
  /\ timezone.isDST

\* C14: for the Eastern-US zone in 2023 the rule table computes the second
\* Sunday of March as day 12; 2023-03-12 is DST-active and 2023-03-11 is
\* not.
C14_March2023 ==
  /\ getNthDayOfMonth(2023, 3, 0, 2) = 12
  /\ (ByManualTable /\ timezone.id = "America/New_York" /\
      req.year = 2023 /\ req.month = 3) =>
       /\ req.day = 12 => timezone.isDST /\ timezone.offset = -Hrs(4)
       /\ req.day = 11 => ~timezone.isDST /\ timezone.offset = -Hrs(5)

C14_Witness ==
  /\ ByManualTable
  /\ timezone.id = "America/New_York"
  /\ <<req.year, req.month, req.day>> = <<2023, 3, 12>>
  /\ GetDay(CivilDay) = 0
  /\ timezone.isDST

\* The four-era United States reference for the request's date: never
\* before 1966; then from the start day up to the day before the end day.
UsReferenceDst ==
  /\ req.year >= 1966
  /\ CivilDay >= DayNumber(UsStart)
  /\ CivilDay < DayNumber(UsEnd)

\* Standard offsets of the four zones, in minutes east of Greenwich.
UsStandardOffset(id) ==
  CASE id = "America/New_York"    -> -Hrs(5)
    [] id = "America/Chicago"     -> -Hrs(6)
    [] id = "America/Denver"      -> -Hrs(7)
    [] id = "America/Los_Angeles" -> -Hrs(8)

\* The resolution of the current request came from a manual table with
\* day-exact US eras: revision 3 or the hybrid's fallback.
ByUsTable ==
  /\ pc = "awaitNode"
  /\ rev \in {"rev3", "hybrid"}
  /\ timezone.source = "manual_calculation"
  /\ timezone.id \in UsZones

\* C15: for each of the four US zones the manual table's DST flag equals
\* the four-era reference for (year, month, day), and the returned offset
\* is the zone's standard offset plus one hour exactly when the flag is set
\* (Mountain zone on 1971-08-25: UTC-6, local 16:29 is UT 22:29).
C15_FourEras ==
  ByUsTable =>
    /\ rev = "hybrid" => (timezone.isDST <=> UsReferenceDst)
    /\ timezone.offset =
         UsStandardOffset(timezone.id) + (IF UsReferenceDst THEN Hrs(1) ELSE 0)
    /\ req = TruchasChart =>
         timezone.offset = -Hrs(6) /\ ut.hour = Hrs(22) + 29

----------------------------------------------------------------------------
(* The library path (checked under SpecTz).                                *)

\* geo-tz and luxon answer Eastern standard time: America/New_York, five
\* hours west of Greenwich, not in DST.
EasternStandard == LibAnswer("America/New_York", "valid", -Hrs(5), FALSE)

\* C16: the chart of 1971-04-18 05:15 at Manchester CT with no tz resolves
\* to the Eastern-US zone with DST not applied, and the UT instant given to
\* the ephemeris is 10:15 on 1971-04-18 (civil time minus the standard
\* offset of -5 hours).
C16_ManchesterUT ==
  (Converted /\ rev = "rev1" /\ req = ManchesterChart /\ lib = EasternStandard) =>
    /\ timezone.id = "America/New_York"
    /\ ~timezone.isDST
    /\ <<ut.year, ut.month, ut.day>> = <<1971, 4, 18>>
    /\ ut.hour = Hrs(10) + 15

\* The hybrid resolved the current request from the coordinates, no tz
\* string having been given.
ByCoordinates == pc = "awaitNode" /\ rev = "hybrid" /\ req.tz = <<>>

\* What the manual rule table gives for the current request.
TableAnswer ==
  ManualFallback(getLikelyTimezoneId(req.lon, req.lat), req.year, req.month,
                 req.day)

\* C17: without an explicit tz, a valid library date-time decides: the
\* offset returned is the one computed from the DateTime (-offset / 60) and
\* the DST flag is its isInDST, and the manual table is not evaluated; the
\* manual table decides only when the library result is invalid or throws;
\* exactly one of the two sources determines the resolution.
C17_LibraryThenTable ==
  ByCoordinates =>
    /\ lib.status = "valid" =>
         /\ timezone.source = "luxon_success"
         /\ timezone.luxonObject
         /\ timezone.offset = -lib.offset
         /\ timezone.isDST = lib.isDST
    /\ lib.status \in {"invalid", "throws"} =>
         /\ timezone.source = "manual_calculation"
         /\ ~timezone.luxonObject
         /\ timezone.offset = TableAnswer.offset
         /\ timezone.isDST = TableAnswer.isDST
    /\ lib.status \in {"valid", "invalid", "throws"}
    /\ timezone.source \in {"luxon_success", "manual_calculation"}

\* The library and the table disagree (the library reports DST on
\* 1971-04-18, the table does not) and the library's answer is returned.
C17_Witness ==
  /\ ByCoordinates
  /\ req = ManchesterChart
  /\ lib = LibAnswer("America/New_York", "valid", -Hrs(4), TRUE)
  /\ timezone.isDST
  /\ timezone.offset = Hrs(4)
  /\ ~TableAnswer.isDST
  /\ TableAnswer.offset = -Hrs(5)

----------------------------------------------------------------------------
(* The fallback of the hybrid (checked under SpecDst).                     *)

\* The library could not resolve the civil time of the current request:
\* the DateTime is invalid or its construction threw.
FellBack ==
  /\ Converted
  /\ rev = "hybrid"
  /\ req.tz = <<>>
  /\ lib.status \in {"invalid", "throws"}

\* The request went on to the ephemeris, and is answered 200 when both
\* ephemeris results are usable.
Proceeds ==
  /\ res.status # 400
  /\ (pc = "done" /\ nodeResult.kind = "ok" /\ houseResult.kind = "ok" /\
      houseResult.armc # 0) => res.status = 200

\* The European reference for the request's date: never before 1980; then
\* from the start day up to the day before the end day.
EuReferenceDst ==
  /\ req.year >= 1980
  /\ CivilDay >= DayNumber(EuStart)
  /\ CivilDay < DayNumber(EuEnd)

\* Whether the rule table of the resolved zone puts the request's date in
\* DST; zones without a table never are.
TableReferenceDst ==
  IF timezone.id \in UsZones THEN UsReferenceDst
  ELSE IF timezone.id \in EuropeIds THEN EuReferenceDst
  ELSE FALSE

\* C18 as stated: when the library cannot resolve the civil time, the
\* resolver returns the identifier's standard offset with the DST flag
\* false and no hour added, and the request proceeds to a normal response.
C18_StandardOffsetOnly ==
  FellBack =>
    /\ ~timezone.isDST
    /\ timezone.offset = getStandardOffset(timezone.id)
    /\ Proceeds

\* C18 amended: when the library cannot resolve the civil time, the
\* resolver returns the identifier's standard offset plus the DST hour of
\* the manual rule table (flag set and one hour added exactly on the dates
\* the table puts in DST; standard offset and flag false otherwise), and
\* the request proceeds to a normal response.
C18_TableFallback ==
  FellBack =>
    /\ timezone.source = "manual_calculation"
    /\ timezone.isDST <=> TableReferenceDst
    /\ timezone.offset =
         getStandardOffset(timezone.id) + (IF TableReferenceDst THEN Hrs(1) ELSE 0)
    /\ Proceeds

\* A summer date in New York after a library failure: DST hour added, and
\* the request answered 200.
C18_Witness ==
  /\ FellBack
  /\ pc = "done"
  /\ res.status = 200
  /\ timezone.id = "America/New_York"
  /\ <<req.year, req.month, req.day>> = <<2023, 7, 15>>
  /\ timezone.isDST
  /\ timezone.offset = -Hrs(4)

----------------------------------------------------------------------------
(* Failure responses (checked under SpecTz and SpecHouse).                 *)

\* C19: if any of year, month, day, hour, lat, lon is absent, the handler
\* answers 400 and nothing else happens for that request: no timezone
\* resolution, no ephemeris call, no success response.
C19_MissingParameters ==
  (pc # "idle" /\
   \E p \in {"year", "month", "day", "hour", "lat", "lon"} : p \in req.absent) =>
    /\ pc = "done"
    /\ res.status = 400
    /\ timezone = NoResolution /\ lib = NoLib /\ ut = NoUT
    /\ nodeResult = NoNode /\ houseResult = NoHouses
    /\ house = 0

C19_Witness ==
  /\ pc = "done"
  /\ rev = "index1"
  /\ req.absent = {"lon"}
  /\ res = ErrorResponse(400, "Missing parameters")

\* C20: if the ephemeris callback delivers no result or a result without a
\* numeric longitude, the handler answers 500 and never requests house
\* cusps; if the node result is usable but the house result is missing or
\* has no cusp array, it answers 500; a success response is sent only when
\* both a numeric node longitude and house cusp data were obtained.
C20_EphemerisFailures ==
  (pc = "done" /\ req.absent = {}) =>
    /\ nodeResult.kind \in {"none", "error"} =>
         res.status = 500 /\ houseResult = NoHouses
    /\ (nodeResult.kind = "ok" /\ houseResult.kind \in {"none", "error"}) =>
         res.status = 500
    /\ res.status = 200 =>
         /\ nodeResult.kind = "ok"
         /\ houseResult.kind = "ok"
         /\ Len(houseResult.house) = NumHouses

C20_Witness ==
  /\ pc = "done"
  /\ rev = "hybrid"
  /\ nodeResult.kind = "error"
  /\ houseResult = NoHouses
  /\ res = ErrorResponse(500, "Failed to calculate North Node")

----------------------------------------------------------------------------
(* Responses in time (checked under SpecLive).                             *)

\* The ephemeris callback of the current request has fired.
CallbackFired == nodeResult # NoNode

\* A response has been sent for the current request.
Responded == res # NoResponse

\* A validated request waiting for the callback has no response, and a
\* validated request with a response has had its callback.
OnlyAfterCallback ==
  /\ pc = "awaitNode" => ~Responded /\ ~CallbackFired
  /\ (Responded /\ req.absent = {}) => CallbackFired

\* A response once sent is not followed by another: it stays as it is until
\* the next request begins.
AtMostOneResponse ==
  [][Responded => (res' = res \/ (pc' = "idle" /\ res' = NoResponse))]_vars

\* A waiting request leaves its wait only by the callback: nothing else
\* (timeout, retry, cancellation) answers or ends it.
OnlyTheCallback ==
  [][(pc = "awaitNode" /\ (pc' # pc \/ res' # res)) => nodeResult' # NoNode]_vars

----------------------------------------------------------------------------
(* Two requests in flight (checked under SpecPair).                        *)

\* The invocation the model is looking at.
Current ==
  Invocation(pc, req, lib, timezone, ut, nodeResult, houseResult, house, res)

\* The response an invocation gets when it is handled alone: the one its
\* own query and its own ephemeris results determine.
AloneResponse(inv) ==
  IF Missing(inv.req) THEN ErrorResponse(400, MissingMessage(rev))
  ELSE IF ~NodeUsable(inv.nodeResult)
    THEN ErrorResponse(500, "Failed to calculate North Node")
  ELSE IF ~HouseUsable(inv.houseResult)
    THEN ErrorResponse(500, "House calculation failed")
  ELSE SuccessResponse(rev, inv.houseResult.house, inv.nodeResult.longitude)

Independent(inv) ==
  /\ inv.pc = "done" => inv.res = AloneResponse(inv)
  /\ (inv.pc # "idle" /\ ~Missing(inv.req)) =>
       /\ inv.timezone = TimezoneUsed(rev, inv.req, inv.lib)
       /\ inv.ut = UTUsed(rev, inv.req, inv.timezone)

\* C22: for any two requests whose ephemeris callbacks are interleaved in
\* any order, each request's response equals the response it gets when
\* handled alone.
C22_Independent == Independent(Current) /\ Independent(peer)

\* Two different charts answered, each with its own longitude, the second
\* callback having fired while the first request was in flight.
C22_Witness ==
  /\ pc = "done" /\ peer.pc = "done"
  /\ res.status = 200 /\ peer.res.status = 200
  /\ req = TruchasChart /\ peer.req = ManchesterChart
  /\ res.longitude # peer.res.longitude
  /\ houseResult # peer.houseResult

----------------------------------------------------------------------------
(* The response fields (checked under SpecOrdinal and SpecHouse).          *)

\* C23: for every non-negative integer n, getOrdinal(n) is "st" when
\* n mod 10 = 1 and n mod 100 is not 11, "nd" when n mod 10 = 2 and
\* n mod 100 is not 12, "rd" when n mod 10 = 3 and n mod 100 is not 13, and
\* "th" otherwise; so 1st, 2nd, 3rd, 4th, 11th, 12th, 21st.
C23_Ordinal ==
  pc = "formatted" =>
    /\ res.ordinal =
         (CASE house % 10 = 1 /\ house % 100 # 11 -> "st"
            [] house % 10 = 2 /\ house % 100 # 12 -> "nd"
            [] house % 10 = 3 /\ house % 100 # 13 -> "rd"
            [] OTHER -> "th")
    /\ house \in {1, 21} => res.ordinal = "st"
    /\ house = 2 => res.ordinal = "nd"
    /\ house = 3 => res.ordinal = "rd"
    /\ house \in {4, 11, 12} => res.ordinal = "th"

C23_Witness ==
  /\ pc = "formatted"
  /\ house = 112
  /\ res.house = 112
  /\ res.ordinal = "th"

\* C24: for every node longitude in [0, 360) the success response carries
\* the sign at index floor(longitude / 30), one of twelve, degrees in 0..29
\* and minutes in 0..59.
C24_SignDegreesMinutes ==
  (pc = "done" /\ res.status = 200) =>
    /\ res.longitude >= 0 /\ res.longitude < FullCircle
    /\ res.signIndex \in 0..11
    /\ res.signIndex * Deg(30) <= res.longitude
    /\ res.longitude < (res.signIndex + 1) * Deg(30)
    /\ res.degrees \in 0..29
    /\ res.minutes \in 0..59

\* C25: getNthDayOfMonth returns the n-th occurrence of the weekday in the
\* month (in 7(n-1)+1 .. 7n, with that weekday, and a day of the month with
\* exactly n occurrences up to it whenever the month has n of them);
\* getLastDayOfMonth returns the last occurrence (that weekday, within the
\* final 7 days) and its backward search takes at most 6 steps.
MonthLength(y, m) ==
  IF m = 2
    THEN (IF y % 4 = 0 /\ (y % 100 # 0 \/ y % 400 = 0) THEN 29 ELSE 28)
    ELSE IF m \in {4, 6, 9, 11} THEN 30 ELSE 31

WeekdayOf(y, m, d) == GetDay(DaysFromCivil(y, m, d))

Occurrences(y, m, w) == {d \in 1..MonthLength(y, m) : WeekdayOf(y, m, d) = w}

C25_WeekdayPrimitives ==
  /\ (pc = "search") => call.steps <= 6
  /\ (pc = "returned" /\ call.fn = "getNthDayOfMonth") =>
       /\ call.result \in (7 * (call.n - 1) + 1)..(7 * call.n)
       /\ WeekdayOf(call.year, call.month, call.result) = call.dayOfWeek
       /\ Cardinality(Occurrences(call.year, call.month, call.dayOfWeek))
            >= call.n =>
            /\ call.result \in
                 Occurrences(call.year, call.month, call.dayOfWeek)
            /\ Cardinality({d \in Occurrences(call.year, call.month,
                                              call.dayOfWeek) :
                              d <= call.result}) = call.n
  /\ (pc = "returned" /\ call.fn = "getLastDayOfMonth") =>
       /\ call.result \in Occurrences(call.year, call.month, call.dayOfWeek)
       /\ call.result > MonthLength(call.year, call.month) - 7
       /\ call.steps <= 6
       /\ call.result =
            getLastDayOfMonth(call.year, call.month, call.dayOfWeek)

\* The search of getLastDayOfMonth returned after its sixth step back, in a
\* leap February.
C25_Witness ==
  /\ pc = "returned"
  /\ call.fn = "getLastDayOfMonth"
  /\ call.steps = 6
  /\ call.month = 2
  /\ call.result = 23

\* C26: no literal date or coordinate is special-cased: for every request
\* of revisions 2 and 5, the two known charts included, the offset and the
\* UT hour given to swe_julday are those the general resolver and the
\* general conversion utHour = localHour - offset produce for the same
\* inputs.
GeneralTimezone ==
  processTimezone(rev, req.lon, req.lat, req.year, req.month, req.day,
                  req.hour, req.tz, lib)

GeneralUT ==
  UncountedUT(req.year, req.month, req.day, req.hour, GeneralTimezone.offset)

C26_NoSpecialCase ==
  (pc = "awaitNode" /\ rev \in {"rev2", "rev5"}) =>
    /\ ut.hour = GeneralUT.hour
    /\ rev = "rev5" => timezone.offset = GeneralTimezone.offset

\* C27: for every well-formed cusp array (12 distinct longitudes in
\* [0, 360) going once round the circle from cusps[0]) every longitude in
\* [0, 360) lies in exactly one of the twelve spans: the house of the
\* response is that span's, the same whichever matching span the loop
\* keeps, and never the no-match value 0.
WellFormedCusps ==
  /\ \A i \in 0..(NumHouses - 1) : Cusp(i) >= 0 /\ Cusp(i) < FullCircle
  /\ \A i, j \in 0..(NumHouses - 1) : i # j => Cusp(i) # Cusp(j)
  /\ CyclicallyIncreasing

\* The arc from cusps[i] forward to cusps[i + 1], measured round the circle.
InArc(i) ==
  ((NodeLon - Cusp(i)) % FullCircle) < ((Cusp(i + 1) - Cusp(i)) % FullCircle)

ArcsContaining == {i \in 0..(NumHouses - 1) : InArc(i)}

C27_ExactlyOneSpan ==
  (Served /\ WellFormedCusps /\ NodeLon >= 0 /\ NodeLon < FullCircle) =>
    /\ Cardinality(ArcsContaining) = 1
    /\ MatchingSpans = ArcsContaining
    /\ res.house # 0
    /\ res.house - 1 \in ArcsContaining
    /\ res.house = HouseLoopLastMatch(0, houseResult.house, NodeLon)

\* A node exactly on the cusp that opens the wrapping span of an unequal
\* chart.
C27_Witness ==
  /\ Served
  /\ WellFormedCusps
  /\ houseResult.house = UnequalCusps
  /\ NodeLon = Deg(10)
  /\ res.house = 10

\* C28: the offset processTimezone returns has one sign convention on all
\* its paths.  For a request without tz that the library resolves, the
\* offset returned is the one the manual table gives for the same zone and
\* the same DST state, and utHour = localHour - offset applied to it gives
\* the UT instant the explicit string gives: for Eastern standard time,
\* local + 5 hours, as from "EST+5:00".
ByLibrary ==
  /\ pc = "awaitNode"
  /\ rev \in {"rev1", "hybrid"}
  /\ req.tz = <<>>
  /\ lib.status = "valid"

SameZoneAndSeason ==
  /\ lib.tzid = getLikelyTimezoneId(req.lon, req.lat)
  /\ lib.isDST = TableAnswer.isDST

ByFormula(offset) ==
  ManualUT(req.year, req.month, req.day, req.hour, offset)

C28_OneSignConvention ==
  ByLibrary =>
    /\ SameZoneAndSeason => timezone.offset = TableAnswer.offset
    /\ lib = EasternStandard =>
         /\ ByFormula(timezone.offset) =
              ByFormula(OffsetFor(TzCoded(EST, "+", 5, <<"0", "0">>)))
         /\ ByFormula(timezone.offset).hour = (req.hour + Hrs(5)) % DayMinutes

\* C29: in the manual fallback every identifier getLikelyTimezoneId can
\* return is given by getStandardOffset the standard offset annotated for it
\* in getLikelyTimezoneId (Atlantic/Azores gives -1 hour), never the default
\* 0 for a zone whose standard offset is not 0.
LikelyTimezoneIds ==
  {"America/New_York", "America/Chicago", "America/Denver",
   "America/Los_Angeles", "America/Anchorage", "Europe/London",
   "Europe/Paris", "Europe/Moscow", "Asia/Kolkata", "Asia/Shanghai",
   "Asia/Tokyo", "Pacific/Auckland", "Atlantic/Azores", "Etc/UTC"}

\* The "// UTC..." annotations of getLikelyTimezoneId, in minutes.
AnnotatedOffset(tzid) ==
  CASE tzid = "America/New_York"    -> -Hrs(5)
    [] tzid = "America/Chicago"     -> -Hrs(6)
    [] tzid = "America/Denver"      -> -Hrs(7)
    [] tzid = "America/Los_Angeles" -> -Hrs(8)
    [] tzid = "America/Anchorage"   -> -Hrs(9)
    [] tzid = "Europe/London"       -> 0
    [] tzid = "Europe/Paris"        -> Hrs(1)
    [] tzid = "Europe/Moscow"       -> Hrs(3)
    [] tzid = "Asia/Kolkata"        -> Hrs(5) + 30
    [] tzid = "Asia/Shanghai"       -> Hrs(8)
    [] tzid = "Asia/Tokyo"          -> Hrs(9)
    [] tzid = "Pacific/Auckland"    -> Hrs(12)
    [] tzid = "Atlantic/Azores"     -> -Hrs(1)
    [] tzid = "Etc/UTC"             -> 0

C29_StandardOffsets ==
  (ByCoordinates /\ lib.status \in {"invalid", "throws"}) =>
    /\ timezone.id \in LikelyTimezoneIds
    /\ getStandardOffset(timezone.id) = AnnotatedOffset(timezone.id)
    /\ timezone.offset - (IF timezone.isDST THEN Hrs(1) ELSE 0)
         = AnnotatedOffset(timezone.id)

\* C30: for every well-formed 12-cusp array and every longitude in
\* [0, 360) the house loop of src/index1.js returns the house number the
\* loop of src/index.js returns, the span across 0/360 included.
ServedIndex1 == pc = "done" /\ res.status = 200 /\ rev = "index1"

C30_SameHouseAsIndexJs ==
  (ServedIndex1 /\ WellFormedCusps /\ NodeLon >= 0 /\ NodeLon < FullCircle) =>
    res.house = HouseLoop(0, houseResult.house, NodeLon)

====
